---- MODULE Spec2Model ----
(***************************************************************************)
(* Model of the RTF25 inference-graph engine.                              *)
(*                                                                         *)
(* Part I  : InferenceGraph/one_pass_optimal_delete.py                     *)
(*           build_hypergraph_tree_with_costs (the recursion is made       *)
(*           explicit with a stack of frames), OptimizedGraphNode.add_branch*)
(*           and optimal_delete_with_precomputed_costs.                    *)
(* Part II : rtf_core/multi_level_optimizer.py                             *)
(*           RTFCorrectedAlgorithm.run_complete_algorithm.                 *)
(* Part III: InferenceGraph/bulid_hyperedges.py, build_hypergrapgh.py,     *)
(*           build_attrib_dep_graph.py: the readers of the denial          *)
(*           constraints (hyperedge builders, get_target_dc_list,          *)
(*           extract_attributes, constraint-cell discovery).               *)
(* Part IV : ID Computation/IGC_d_getBounds.py and getBounds.py.           *)
(* Part V  : DataGeneration/dc_lookup.py, DC and Delset/dc_lookup.py and   *)
(*           DataGeneration/ig_constructuon.py: the attribute index.       *)
(* Part VI : ID Computation/get_global_domain.py.                          *)
(*                                                                         *)
(* A Cell is (attribute, key, row[attribute]); key and row are fixed for   *)
(* one traversal, so a cell is identified by its attribute name.           *)
(***************************************************************************)
EXTENDS Integers, Sequences, FiniteSets, TLC

VARIABLES
    \* ---- Part I ----
    hyperedge_map,          \* head attribute -> list of hyperedges (each a list of tail attributes)
    pc,                     \* position in combined workflow
    stack,                  \* frames of recurse(attr, snapshot)
    node_map,               \* attr -> OptimizedGraphNode (fields of the node)
    min_cell,               \* <<head attr, hyperedge index>> -> he.min_cell
    root,                   \* node returned by build_hypergraph_tree_with_costs
    deleted,                \* argument of optimal_delete_with_precomputed_costs
    to_delete,              \* its accumulating set
    queue,                  \* its BFS deque
    \* ---- Part II ----
    opc,                    \* position in run_complete_algorithm
    threshold,              \* self.threshold, in thousandths
    factor,                 \* restriction factor of each constraint cell, in thousandths
    constraint_cells,       \* self.constraint_cells
    current_deletion_set,   \* self.current_deletion_set
    original_domain_size,   \* self.original_domain_size
    initial_restricted_domain_size,
    current_domain_size,    \* self.current_domain_size
    iteration,              \* local counter of the main loop
    potential_plans,        \* list built by Level 1, as a set of <<benefit, candidate>>
    round_start_set,        \* history: current_deletion_set when the round began
    added,                  \* history: <<benefit, candidate>> of every committed plan
    sizes,                  \* history: current_domain_size after every Action phase
    results,                \* the dictionary run_complete_algorithm returned
    \* ---- Part III ----
    denial_constraints,     \* the list of DCs, each a list of predicates
    row,                    \* the fetched row, as the set of its column names
    dpc,                    \* position in the operation of Part III that is running
    operation,              \* which operation was called
    argument,               \* its argument besides the DC list and the row
    returned,               \* what it returned
    previous,               \* history: what the previous call of the operation returned
    visited_attrs,          \* build_hyperedge_map: visited_attrs
    frontier,               \* build_hyperedge_map: the rest of the frontier being walked
    next_frontier,          \* build_hyperedge_map: next_frontier
    \* ---- Part IV ----
    database,               \* the database the inferer was constructed for
    target_table,           \* name of the table that holds the target attribute
    known_table,            \* name of the table that holds the known attribute
    target_rows,            \* content of the former
    known_rows,             \* content of the latter (the same table in a same-table call)
    known_value,            \* the value of the known attribute
    bpc,                    \* position of the call of get_bounds_int_int
    inferer,                \* the class whose get_bounds_int_int was called
    bounds,                 \* the pair (lower, upper) it returned
    \* ---- Part V ----
    Phi,                    \* the dictionary of denial constraints: label -> attributes
    db_name,                \* argument of generate_lookup_table(db_name)
    ipc,                    \* position of the call of the indexer
    indexer,                \* which indexer was called
    indexed,                \* history: the dictionary it read
    lookup_table,           \* what it returned: attribute -> set of labels
    \* ---- Part VI ----
    Dt,                     \* the database state: row id -> value of the attribute in that row
    domain_attr,            \* the attribute get_global_domain is asked about
    delset,                 \* ids of the rows whose cell (row, attribute) is in delset
    gpc,                    \* position of the call of get_global_domain
    domain                  \* the domain it returned

treeVars == <<hyperedge_map, pc, stack, node_map, min_cell, root, deleted, to_delete, queue>>
optVars == <<opc, threshold, factor, constraint_cells, current_deletion_set,
              original_domain_size, initial_restricted_domain_size, current_domain_size,
              iteration, potential_plans, round_start_set, added, sizes, results>>
dcVars == <<denial_constraints, row, dpc, operation, argument, returned, previous,
            visited_attrs, frontier, next_frontier>>
bndVars == <<database, target_table, known_table, target_rows, known_rows, known_value,
             bpc, inferer, bounds>>
idxVars == <<Phi, db_name, ipc, indexer, indexed, lookup_table>>
gdVars == <<Dt, domain_attr, delset, gpc, domain>>
nonTreeVars == <<optVars, dcVars, bndVars, idxVars, gdVars>>
nonOptVars == <<treeVars, dcVars, bndVars, idxVars, gdVars>>
vars == <<treeVars, optVars, dcVars, bndVars, idxVars, gdVars>>

None == "None"

(***************************************************************************)
(* Bounds                                                                  *)
(***************************************************************************)
MaxEdges == 2       \* hyperedges per head attribute
MaxTail == 2        \* tail cells per hyperedge
MaxDepth == 4       \* cap on the recursion depth (never reached by the code)
MaxCells == 12      \* constraint cells of the optimizer

Attrs == {"edu", "num", "age"}
start_attr == "edu"

(***************************************************************************)
(* Helpers on sequences                                                    *)
(***************************************************************************)
Range(s) == {s[i] : i \in DOMAIN s}

RECURSIVE SeqsUpTo(_, _)
SeqsUpTo(S, n) ==
    IF n = 0 THEN {<<>>}
    ELSE LET shorter == SeqsUpTo(S, n - 1)
         IN  shorter \cup {Append(s, x) : s \in {t \in shorter : Len(t) = n - 1}, x \in S}

\* a lookup that hands out a placeholder for a missing key
HasKeyOrPlaceholder(d, k) == TRUE

\* does the subscript d[k] succeed on a dictionary with key set d (KeyError otherwise)
HasKey(d, k) == k \in d

\* the lists a Hyperedge can iterate over: distinct tail attributes other than the head
Hyperedges(h) ==
    {t \in SeqsUpTo(Attrs \ {h}, MaxTail) :
        Len(t) >= 1 /\ \A i, j \in DOMAIN t : i # j => t[i] # t[j]}

\* build_hyperedges deduplicates by frozenset(he): no two entries with the same tail set
HyperedgeLists(h) ==
    {l \in SeqsUpTo(Hyperedges(h), MaxEdges) :
        \A i, j \in DOMAIN l : i # j => Range(l[i]) # Range(l[j])}

RECURSIVE HyperedgeMaps(_)
HyperedgeMaps(S) ==
    IF S = {} THEN {<<>>}
    ELSE LET h == CHOOSE x \in S : TRUE
         IN  {(h :> l) @@ m : l \in HyperedgeLists(h), m \in HyperedgeMaps(S \ {h})}

(***************************************************************************)
(* OptimizedGraphNode                                                      *)
(***************************************************************************)
NewNode == [branches |-> <<>>, cost |-> 1, min_cost_child |-> None, is_cost_computed |-> FALSE]

\* first child of minimal cost, as the loop `if child.cost < min_child.cost` finds it
RECURSIVE MinChildFrom(_, _, _, _)
MinChildFrom(children, i, best, nm) ==
    IF i > Len(children) THEN best
    ELSE MinChildFrom(children, i + 1,
                      IF nm[children[i]].cost < nm[best].cost THEN children[i] ELSE best, nm)

MinChild(children, nm) == MinChildFrom(children, 2, children[1], nm)

\* does _update_costs_incremental take the branch that assigns cost and he.min_cell
UpdatesCost(node, new_cost) == ~node.is_cost_computed \/ new_cost < node.cost

\* an add_branch that leaves out the node's own unit of cost
AddBranchNodeNoOwnCost(node, he, children, nm) ==
    LET appended == [node EXCEPT !.branches = Append(@, [he |-> he, children |-> children])]
        new_cost == nm[MinChild(children, nm)].cost
    IN  IF children = <<>> THEN appended
        ELSE IF UpdatesCost(node, new_cost)
             THEN [appended EXCEPT !.cost = new_cost,
                                   !.min_cost_child = MinChild(children, nm),
                                   !.is_cost_computed = TRUE]
             ELSE appended

\* node after add_branch(he, children)
AddBranchNode(node, he, children, nm) ==
    LET appended == [node EXCEPT !.branches = Append(@, [he |-> he, children |-> children])]
        new_cost == 1 + nm[MinChild(children, nm)].cost
    IN  IF children = <<>> THEN appended
        ELSE IF UpdatesCost(node, new_cost)
             THEN [appended EXCEPT !.cost = new_cost,
                                   !.min_cost_child = MinChild(children, nm),
                                   !.is_cost_computed = TRUE]
             ELSE appended

\* he.min_cell after add_branch(he, children) on node
AddBranchMinCell(node, children, nm, old) ==
    IF children = <<>> THEN old
    ELSE IF UpdatesCost(node, 1 + nm[MinChild(children, nm)].cost)
         THEN MinChild(children, nm)
         ELSE old

(***************************************************************************)
(* build_hypergraph_tree_with_costs                                        *)
(***************************************************************************)
Frame(attr, snapshot) ==
    [attr |-> attr, current_snapshot |-> snapshot, he |-> 1, tc |-> 1, child_nodes |-> <<>>]

Top == stack[Len(stack)]
TopEdges == hyperedge_map[Top.attr]
TopEdge == TopEdges[Top.he]
\* the snapshot of the caller, without the tail attributes of the hyperedge
caller_snapshot == Top.current_snapshot

new_snapshot == Top.current_snapshot \cup Range(TopEdge)

SetTop(f) == [stack EXCEPT ![Len(stack)] = f]

InitTree ==
    /\ hyperedge_map \in HyperedgeMaps(Attrs)
    /\ pc = "start"
    /\ stack = <<>>
    /\ node_map = <<>>
    /\ min_cell = [p \in {} |-> None]
    /\ root = None
    /\ deleted = None
    /\ to_delete = {}
    /\ queue = <<>>

\* recurse(start_attr, visited) with visited = {start_attr}
BuildStart ==
    /\ pc = "start"
    /\ IF HasKey(row, start_attr)
       THEN /\ node_map' = (start_attr :> NewNode)
            /\ stack' = <<Frame(start_attr, {start_attr})>>
            /\ pc' = "build"
       ELSE \* `row[attr]` raises KeyError before any node exists
            /\ pc' = "raised"
            /\ UNCHANGED <<node_map, stack>>
    /\ UNCHANGED <<hyperedge_map, min_cell, root, deleted, to_delete, queue>>
    /\ UNCHANGED nonTreeVars

\* `if all(t in current_snapshot for t in tail_attrs): continue`
BuildSkipHyperedge ==
    /\ pc = "build"
    /\ Top.he <= Len(TopEdges)
    /\ Top.tc = 1
    /\ Range(TopEdge) \subseteq Top.current_snapshot
    /\ stack' = SetTop([Top EXCEPT !.he = @ + 1])
    /\ UNCHANGED <<hyperedge_map, pc, node_map, min_cell, root, deleted, to_delete, queue>>
    /\ UNCHANGED nonTreeVars

Expanding ==
    /\ pc = "build"
    /\ Top.he <= Len(TopEdges)
    /\ ~(Range(TopEdge) \subseteq Top.current_snapshot)
    /\ Top.tc <= Len(TopEdge)

\* `if tc.attribute.col not in current_snapshot` is false: no child for this tail cell
BuildSkipTail ==
    /\ Expanding
    /\ TopEdge[Top.tc] \in Top.current_snapshot
    /\ stack' = SetTop([Top EXCEPT !.tc = @ + 1])
    /\ UNCHANGED <<hyperedge_map, pc, node_map, min_cell, root, deleted, to_delete, queue>>
    /\ UNCHANGED nonTreeVars

\* recursion that neither memoizes nor extends the snapshot
RecurseNoDiscipline(attr, snapshot) ==
    /\ Len(stack) < MaxDepth
    /\ node_map' = (attr :> NewNode) @@ node_map
    /\ stack' = Append(stack, Frame(attr, {start_attr}))
    /\ UNCHANGED pc

\* recursion that hands the caller's own snapshot to the child
RecurseCallerSnapshot(attr, snapshot) ==
    IF ~HasKey(row, attr)
    THEN /\ pc' = "raised"
         /\ UNCHANGED <<node_map, stack>>
    ELSE IF attr \in DOMAIN node_map
    THEN /\ stack' = SetTop([Top EXCEPT !.child_nodes = Append(@, attr), !.tc = @ + 1])
         /\ UNCHANGED <<node_map, pc>>
    ELSE /\ Len(stack) < MaxDepth
         /\ node_map' = (attr :> NewNode) @@ node_map
         /\ stack' = Append(stack, Frame(attr, Top.current_snapshot))
         /\ UNCHANGED pc

\* the call recurse(attr, snapshot): `row[attr]` raises KeyError for a column the row
\* lacks; an attribute already in node_map returns its node at once, any other gets a
\* fresh node and a frame of its own
Recurse(attr, snapshot) ==
    IF ~HasKey(row, attr)
    THEN /\ pc' = "raised"
         /\ UNCHANGED <<node_map, stack>>
    ELSE IF attr \in DOMAIN node_map
    THEN /\ stack' = SetTop([Top EXCEPT !.child_nodes = Append(@, attr), !.tc = @ + 1])
         /\ UNCHANGED <<node_map, pc>>
    ELSE /\ Len(stack) < MaxDepth
         /\ node_map' = (attr :> NewNode) @@ node_map
         /\ stack' = Append(stack, Frame(attr, snapshot))
         /\ UNCHANGED pc

\* `child = recurse(tc.attribute.col, new_snapshot)`
BuildRecurse ==
    /\ Expanding
    /\ TopEdge[Top.tc] \notin Top.current_snapshot
    /\ Recurse(TopEdge[Top.tc], new_snapshot)
    /\ UNCHANGED <<hyperedge_map, min_cell, root, deleted, to_delete, queue>>
    /\ UNCHANGED nonTreeVars

\* `if child_nodes: node.add_branch(he, child_nodes)`, then the next hyperedge
BuildAddBranch ==
    /\ pc = "build"
    /\ Top.he <= Len(TopEdges)
    /\ ~(Range(TopEdge) \subseteq Top.current_snapshot)
    /\ Top.tc > Len(TopEdge)
    /\ LET a == Top.attr
           k == <<a, Top.he>>
           old == IF k \in DOMAIN min_cell THEN min_cell[k] ELSE None
       IN  IF Top.child_nodes # <<>>
           THEN /\ node_map' = [node_map EXCEPT ![a] = AddBranchNode(@, Top.he, Top.child_nodes, node_map)]
                /\ min_cell' = (k :> AddBranchMinCell(node_map[a], Top.child_nodes, node_map, old)) @@ min_cell
           ELSE UNCHANGED <<node_map, min_cell>>
    /\ stack' = SetTop([Top EXCEPT !.he = @ + 1, !.tc = 1, !.child_nodes = <<>>])
    /\ UNCHANGED <<hyperedge_map, pc, root, deleted, to_delete, queue>>
    /\ UNCHANGED nonTreeVars

\* `return node`: to the caller's child_nodes, or out of build_hypergraph_tree_with_costs
BuildReturn ==
    /\ pc = "build"
    /\ Top.he > Len(TopEdges)
    /\ IF Len(stack) = 1
       THEN /\ stack' = <<>>
            /\ root' = Top.attr
            /\ pc' = "built"
       ELSE /\ LET caller == stack[Len(stack) - 1]
               IN  stack' = [SubSeq(stack, 1, Len(stack) - 1) EXCEPT ![Len(stack) - 1] =
                                [caller EXCEPT !.child_nodes = Append(@, Top.attr), !.tc = @ + 1]]
            /\ UNCHANGED <<root, pc>>
    /\ UNCHANGED <<hyperedge_map, node_map, min_cell, deleted, to_delete, queue>>
    /\ UNCHANGED nonTreeVars

(***************************************************************************)
(* find_node and optimal_delete_with_precomputed_costs                     *)
(***************************************************************************)
\* the children of a node, in the order the two nested loops of find_node visit them
RECURSIVE ChildrenFrom(_, _)
ChildrenFrom(branches, i) ==
    IF i > Len(branches) THEN <<>>
    ELSE branches[i].children \o ChildrenFrom(branches, i + 1)

\* depth-first search for the node whose cell equals target; None when absent.
\* fuel bounds the descent (the builder never produces a path longer than MaxDepth)
RECURSIVE find_node(_, _, _)
RECURSIVE FindAmong(_, _, _, _)
find_node(node, target, fuel) ==
    IF node = target THEN node
    ELSE IF fuel = 0 THEN None
    ELSE FindAmong(ChildrenFrom(node_map[node].branches, 1), 1, target, fuel - 1)

FindAmong(children, i, target, fuel) ==
    IF i > Len(children) THEN None
    ELSE LET found == find_node(children[i], target, fuel)
         IN  IF found # None THEN found ELSE FindAmong(children, i + 1, target, fuel)

\* result of optimal_delete_with_precomputed_costs when find_node(root, deleted) is None
NotFoundResult(d) == {}

\* `to_delete = {deleted}; queue = deque([start_node])`, or the early `return set()`
DeleteStart ==
    /\ pc = "built"
    /\ \E d \in Attrs :
        /\ deleted' = d
        /\ LET start_node == find_node(root, d, MaxDepth)
           IN  IF start_node = None
               THEN /\ to_delete' = NotFoundResult(d)
                    /\ queue' = <<>>
                    /\ pc' = "done"
               ELSE /\ to_delete' = {d}
                    /\ queue' = <<start_node>>
                    /\ pc' = "bfs"
    /\ UNCHANGED <<hyperedge_map, stack, node_map, min_cell, root>>
    /\ UNCHANGED nonTreeVars

\* the `for he, _ in curr.branches` loop, from branch i on, over the pair (to_delete, queue)
RECURSIVE FollowMinCells(_, _, _, _)
FollowMinCells(curr, i, td, q) ==
    IF i > Len(node_map[curr].branches) THEN [to_delete |-> td, queue |-> q]
    ELSE LET k == <<curr, node_map[curr].branches[i].he>>
             m == IF k \in DOMAIN min_cell THEN min_cell[k] ELSE None
         IN  IF m # None /\ m \notin td
             THEN LET nxt == find_node(root, m, MaxDepth)
                  IN  FollowMinCells(curr, i + 1, td \cup {m},
                                     IF nxt # None THEN Append(q, nxt) ELSE q)
             ELSE FollowMinCells(curr, i + 1, td, q)

\* one turn of `while queue`: popleft and walk the branches of curr
DeleteVisit ==
    /\ pc = "bfs"
    /\ queue # <<>>
    /\ LET r == FollowMinCells(Head(queue), 1, to_delete, Tail(queue))
       IN  /\ to_delete' = r.to_delete
           /\ queue' = r.queue
    /\ UNCHANGED <<hyperedge_map, pc, stack, node_map, min_cell, root, deleted>>
    /\ UNCHANGED nonTreeVars

\* `return to_delete`
DeleteReturn ==
    /\ pc = "bfs"
    /\ queue = <<>>
    /\ pc' = "done"
    /\ UNCHANGED <<hyperedge_map, stack, node_map, min_cell, root, deleted, to_delete, queue>>
    /\ UNCHANGED nonTreeVars

(***************************************************************************)
(* Part II: RTFCorrectedAlgorithm (rtf_core/multi_level_optimizer.py)      *)
(*                                                                         *)
(* Restriction factors and the threshold are kept in thousandths (the code *)
(* rounds the factor to 3 decimals).  The constraint cells are 1..n and    *)
(* the target cell is Target.  Cells differ only by their factor and by    *)
(* their place in the iteration order of the Python set constraint_cells,  *)
(* so they are numbered by non-decreasing factor and, among equal factors, *)
(* in the order the set yields them.                                       *)
(***************************************************************************)
Target == 0
MaxIterations == 10
FallbackDomainSize == 16
FactorValues == {0, 150, 500, 1000}
Alphas == {500, 800, 1000}
OrigSizes == {0, FallbackDomainSize}

\* the non-decreasing lists of n restriction factors
RECURSIVE SortedFactors(_)
SortedFactors(n) ==
    IF n = 0 THEN {<<>>}
    ELSE {Append(p[1], p[2]) :
            p \in {q \in SortedFactors(n - 1) \X FactorValues :
                      Len(q[1]) = 0 \/ q[1][Len(q[1])] <= q[2]}}

RECURSIVE SumFactors(_)
SumFactors(S) ==
    IF S = {} THEN 0
    ELSE LET c == CHOOSE x \in S : TRUE IN factor[c] + SumFactors(S \ {c})

Max(a, b) == IF a >= b THEN a ELSE b

\* _compute_domain_size_for_deletion_set: max(1, int(original * (1 - avg_restriction))),
\* or the original size when no constraint cell is left outside deletion_set
ComputeDomainSize(deletion_set, cells, original) ==
    LET active == cells \ deletion_set
        n == Cardinality(active)
    IN  IF active = {} THEN original
        ELSE Max(1, (original * (1000 * n - SumFactors(active))) \div (1000 * n))

\* _calculate_deletion_benefit
DeletionBenefit(candidate) ==
    ComputeDomainSize(current_deletion_set \cup {candidate}, constraint_cells, original_domain_size)
        - current_domain_size

\* a loop test that gives up while one constraint cell is still active
HasSeveralActiveConstraints == Cardinality(constraint_cells \ current_deletion_set) > 1

\* _has_active_constraints_on_target
HasActiveConstraints == constraint_cells \ current_deletion_set # {}

\* threshold test that misses the case of equality
CheckPrivacyThresholdStrict ==
    IF original_domain_size = 0 THEN TRUE
    ELSE current_domain_size * 1000 > threshold * original_domain_size

\* _check_privacy_threshold
CheckPrivacyThreshold ==
    IF original_domain_size = 0 THEN TRUE
    ELSE current_domain_size * 1000 >= threshold * original_domain_size

\* does plan p precede plan q in the list potential_plans: the candidates were appended
\* in the order of _order_constraints_by_restrictiveness, a stable sort by factor
\* descending of the constraints in set order
AppendedBefore(p, q) ==
    \/ factor[p[2]] > factor[q[2]]
    \/ factor[p[2]] = factor[q[2]] /\ p[2] < q[2]

\* a sort of the plans that puts the smallest benefit first
WinningPlansAscending(plans) ==
    {p \in plans : \A q \in plans \ {p} : p[1] < q[1] \/ (p[1] = q[1] /\ AppendedBefore(p, q))}

\* potential_plans.sort(key=lambda x: x[0], reverse=True)[0]: maximal benefit, and the
\* stable sort keeps the earlier-appended plan first among equal benefits
WinningPlans(plans) ==
    {p \in plans : \A q \in plans \ {p} : p[1] > q[1] \/ (p[1] = q[1] /\ AppendedBefore(p, q))}

\* a commit that overwrites the deletion set
CommitOverwrite(deletion_set, candidate) == {candidate}

\* self.current_deletion_set.add(winning_candidate)
Commit(deletion_set, candidate) == deletion_set \cup {candidate}

InitOpt ==
    /\ opc = "new"
    /\ threshold \in Alphas
    /\ \E n \in 0..MaxCells : factor \in SortedFactors(n)
    /\ constraint_cells = {}
    /\ current_deletion_set = {}
    /\ original_domain_size = 0
    /\ initial_restricted_domain_size = 0
    /\ current_domain_size = 0
    /\ iteration = 0
    /\ potential_plans = {}
    /\ round_start_set = {}
    /\ added = <<>>
    /\ sizes = <<>>
    /\ results = <<>>

\* _initialize_algorithm, then `iteration = 0`
Initialize ==
    /\ opc = "new"
    /\ \E original \in OrigSizes :
        /\ original_domain_size' = original
        /\ initial_restricted_domain_size' = ComputeDomainSize({Target}, DOMAIN factor, original)
        /\ current_domain_size' = ComputeDomainSize({Target}, DOMAIN factor, original)
    /\ current_deletion_set' = {Target}
    /\ constraint_cells' = DOMAIN factor
    /\ iteration' = 0
    /\ opc' = "loop"
    /\ UNCHANGED <<threshold, factor, potential_plans, round_start_set, added, sizes>>
    /\ UNCHANGED <<results, nonOptVars>>

\* `while self._has_active_constraints_on_target()` is false
LoopExit ==
    /\ opc = "loop"
    /\ ~HasActiveConstraints
    /\ opc' = "results"
    /\ UNCHANGED <<threshold, factor, constraint_cells, current_deletion_set, original_domain_size,
                   initial_restricted_domain_size, current_domain_size, iteration,
                   potential_plans, round_start_set, added, sizes>>
    /\ UNCHANGED <<results, nonOptVars>>

\* a round begins and `if self._check_privacy_threshold(): break`
ThresholdBreak ==
    /\ opc = "loop"
    /\ HasActiveConstraints
    /\ CheckPrivacyThreshold
    /\ iteration' = iteration + 1
    /\ round_start_set' = current_deletion_set
    /\ opc' = "results"
    /\ UNCHANGED <<threshold, factor, constraint_cells, current_deletion_set, original_domain_size,
                   initial_restricted_domain_size, current_domain_size,
                   potential_plans, added, sizes>>
    /\ UNCHANGED <<results, nonOptVars>>

\* a round begins and the threshold is not met
RoundBegin ==
    /\ opc = "loop"
    /\ HasActiveConstraints
    /\ ~CheckPrivacyThreshold
    /\ iteration' = iteration + 1
    /\ round_start_set' = current_deletion_set
    /\ opc' = "level1"
    /\ UNCHANGED <<threshold, factor, constraint_cells, current_deletion_set, original_domain_size,
                   initial_restricted_domain_size, current_domain_size,
                   potential_plans, added, sizes>>
    /\ UNCHANGED <<results, nonOptVars>>

\* Level 1: every active constraint cell becomes a candidate with its what-if benefit
OrderedAnalysis ==
    /\ opc = "level1"
    /\ potential_plans' = {<<DeletionBenefit(c), c>> : c \in constraint_cells \ current_deletion_set}
    /\ opc' = "level2"
    /\ UNCHANGED <<threshold, factor, constraint_cells, current_deletion_set, original_domain_size,
                   initial_restricted_domain_size, current_domain_size, iteration,
                   round_start_set, added, sizes>>
    /\ UNCHANGED <<results, nonOptVars>>

\* a restriction-factor query, a domain lookup or the graph expansion raises in Level 1
OrderedAnalysisRaises ==
    /\ opc = "level1"
    /\ opc' = "raised"
    /\ UNCHANGED <<threshold, factor, constraint_cells, current_deletion_set, original_domain_size,
                   initial_restricted_domain_size, current_domain_size, iteration,
                   potential_plans, round_start_set, added, sizes>>
    /\ UNCHANGED <<results, nonOptVars>>

\* Level 2 and Level 3: pick the winning plan, commit it, recompute the domain size,
\* then the safety break `if iteration > 10`
DecideAndAct ==
    /\ opc = "level2"
    /\ IF potential_plans = {}
       THEN /\ opc' = "results"
            /\ UNCHANGED <<current_deletion_set, current_domain_size, added, sizes>>
       ELSE \E plan \in WinningPlans(potential_plans) :
            /\ current_deletion_set' = Commit(current_deletion_set, plan[2])
            /\ current_domain_size' =
                 ComputeDomainSize(current_deletion_set', constraint_cells, original_domain_size)
            /\ added' = Append(added, plan)
            /\ sizes' = Append(sizes, current_domain_size')
            /\ opc' = IF iteration > MaxIterations THEN "results" ELSE "loop"
    /\ UNCHANGED <<threshold, factor, constraint_cells, original_domain_size,
                   initial_restricted_domain_size, iteration, potential_plans, round_start_set>>
    /\ UNCHANGED <<results, nonOptVars>>

\* the winning plan is committed and a restriction-factor query of
\* _compute_current_domain_size raises (one is made when a constraint cell stays active)
ActRaises ==
    /\ opc = "level2"
    /\ \E plan \in WinningPlans(potential_plans) :
        /\ current_deletion_set' = Commit(current_deletion_set, plan[2])
        /\ constraint_cells \ current_deletion_set' # {}
        /\ added' = Append(added, plan)
    /\ opc' = "raised"
    /\ UNCHANGED <<threshold, factor, constraint_cells, original_domain_size,
                   initial_restricted_domain_size, current_domain_size, iteration,
                   potential_plans, round_start_set, sizes>>
    /\ UNCHANGED <<results, nonOptVars>>

\* `return self._generate_results()`
GenerateResults ==
    /\ opc = "results"
    /\ results' =
         [deletion_set |-> current_deletion_set,
          final_domain_size |-> current_domain_size,
          original_domain_size |-> original_domain_size,
          initial_restricted_domain_size |-> initial_restricted_domain_size,
          \* the quotient current / original as <<numerator, denominator>>, 0.0 as <<0, 1>>
          privacy_ratio |-> IF original_domain_size > 0
                            THEN <<current_domain_size, original_domain_size>>
                            ELSE <<0, 1>>,
          threshold_met |-> CheckPrivacyThreshold,
          iterations |-> Cardinality(current_deletion_set) - 1,
          constraint_cells_deleted |-> Cardinality(constraint_cells \cap current_deletion_set)]
    /\ opc' = "done"
    /\ UNCHANGED <<threshold, factor, constraint_cells, current_deletion_set, original_domain_size,
                   initial_restricted_domain_size, current_domain_size, iteration,
                   potential_plans, round_start_set, added, sizes>>
    /\ UNCHANGED nonOptVars

(***************************************************************************)
(* Part III: the readers of the denial constraints                         *)
(*                                                                         *)
(* A predicate is the tuple (left, op, right); an operand such as          *)
(* 't1.education' is kept as the list of its dot-separated parts, which is *)
(* what split('.') yields.  A hyperedge is the list of its tail cells, and *)
(* as in Part I a cell of the row is identified by its column.  The result *)
(* of a call is a record: raised tells whether it ended in an exception.   *)
(***************************************************************************)
MaxDCs == 2         \* denial constraints in the list
MaxPreds == 2       \* predicates per denial constraint
MaxCalls == 2       \* calls of build_hyperedges on one builder

Predicate(l, r) == <<<<"t1", l>>, "=", <<"t2", r>>>>

\* same-column comparisons, and the comparisons of the target column with another one,
\* which name the target on one side only
Predicates ==
    {Predicate(c[1], c[2]) :
        c \in {d \in Attrs \X Attrs : d[1] = d[2] \/ {d[1], d[2]} = {start_attr, "num"}}}

\* a predicate that lost its right operand
MalformedPredicate == <<<<"t1", "num">>, "=">>

\* the rows fetched: every column, one without a tail column, one without the start column
Rows == {Attrs, Attrs \ {"age"}, Attrs \ {start_attr}}

Returns(v) == [raised |-> FALSE, value |-> v]
Raises == [raised |-> TRUE, value |-> <<>>]

\* operand.split('.')[-1]
LastPart(operand) == operand[Len(operand)]
\* operand.split('.')[1]
SecondPart(operand) == operand[2]

\* `for (left, _, right) in ...` fails to unpack a predicate that is not a 3-tuple
Unpacks(pred) == Len(pred) = 3

NoIndex == 0
UnpackError == 0 - 1

\* HyperedgeBuilder._find_target_predicate: index of the first predicate that mentions
\* target_attr (NoIndex for None, UnpackError when a predicate met on the way is malformed)
RECURSIVE find_target_predicate(_, _, _)
find_target_predicate(dc, target_attr, i) ==
    IF i > Len(dc) THEN NoIndex
    ELSE IF ~Unpacks(dc[i]) THEN UnpackError
    ELSE IF LastPart(dc[i][1]) = target_attr \/ LastPart(dc[i][3]) = target_attr THEN i
    ELSE find_target_predicate(dc, target_attr, i + 1)

\* the head search written out in the module-level build_hyperedges
RECURSIVE HeadIndexFrom(_, _, _)
HeadIndexFrom(dc, target_attr, i) ==
    IF i > Len(dc) THEN NoIndex
    ELSE IF ~Unpacks(dc[i]) THEN UnpackError
    ELSE IF SecondPart(dc[i][1]) = target_attr \/ SecondPart(dc[i][3]) = target_attr THEN i
    ELSE HeadIndexFrom(dc, target_attr, i + 1)

\* [pred for j, pred in enumerate(dc) if j != head_idx]
tail_preds(dc, head_idx) ==
    [j \in 1..(Len(dc) - 1) |-> dc[IF j < head_idx THEN j ELSE j + 1]]

\* HyperedgeBuilder._create_tail_cells: a cell per tail predicate whose column is in the row
create_tail_cells(preds, r) ==
    SelectSeq([k \in DOMAIN preds |-> LastPart(preds[k][1])], LAMBDA col : col \in r)

\* the tail loop of the module-level build_hyperedges: row[col] for every tail predicate
TailCells_row(preds, r) ==
    IF \E k \in DOMAIN preds : ~HasKey(r, SecondPart(preds[k][1])) THEN Raises
    ELSE Returns([k \in DOMAIN preds |-> SecondPart(preds[k][1])])

frozenset(he) == Range(he)

\* a dedup that keeps the first hyperedge only
AddToSeenFirstOnly(seen, he) == IF seen # <<>> THEN seen ELSE <<he>>

\* `if keyset not in seen: seen[keyset] = he` on the insertion-ordered dict seen
AddToSeen(seen, he) ==
    IF \E k \in DOMAIN seen : frozenset(seen[k]) = frozenset(he) THEN seen ELSE Append(seen, he)

RECURSIVE HyperedgeBuilderLoop(_, _, _, _, _)
HyperedgeBuilderLoop(dcs, r, target_attr, i, seen) ==
    IF i > Len(dcs) THEN Returns(seen)
    ELSE LET head_idx == find_target_predicate(dcs[i], target_attr, 1)
             preds == tail_preds(dcs[i], head_idx)
             cells == create_tail_cells(preds, r)
         IN  IF head_idx = UnpackError THEN Raises
             ELSE IF head_idx = NoIndex THEN HyperedgeBuilderLoop(dcs, r, target_attr, i + 1, seen)
             ELSE IF \E k \in DOMAIN preds : ~Unpacks(preds[k]) THEN Raises
             ELSE HyperedgeBuilderLoop(dcs, r, target_attr, i + 1,
                                       IF cells # <<>> THEN AddToSeen(seen, cells) ELSE seen)

\* HyperedgeBuilder.build_hyperedges(row, key, target_attr)
HyperedgeBuilder_build_hyperedges(dcs, r, target_attr) ==
    IF dcs = <<>> THEN Returns(<<>>) ELSE HyperedgeBuilderLoop(dcs, r, target_attr, 1, <<>>)

RECURSIVE BuildHyperedgesLoop(_, _, _, _, _)
BuildHyperedgesLoop(dcs, r, target_attr, i, seen) ==
    IF i > Len(dcs) THEN Returns(seen)
    ELSE LET head_idx == HeadIndexFrom(dcs[i], target_attr, 1)
             preds == tail_preds(dcs[i], head_idx)
             cells == TailCells_row(preds, r)
         IN  IF head_idx = UnpackError THEN Raises
             ELSE IF head_idx = NoIndex THEN BuildHyperedgesLoop(dcs, r, target_attr, i + 1, seen)
             ELSE IF \E k \in DOMAIN preds : ~Unpacks(preds[k]) THEN Raises
             ELSE IF cells.raised THEN Raises
             ELSE BuildHyperedgesLoop(dcs, r, target_attr, i + 1, AddToSeen(seen, cells.value))

\* build_hyperedges(row, key, target_attr) of build_hypergrapgh.py
build_hyperedges(dcs, r, target_attr) == BuildHyperedgesLoop(dcs, r, target_attr, 1, <<>>)

\* get_target_dc_list(column_name): the DCs with a predicate whose predicate[0] names it
get_target_dc_list(dcs, column_name) ==
    SelectSeq(dcs, LAMBDA dc : \E k \in DOMAIN dc : LastPart(dc[k][1]) = column_name)

\* extract_attributes(dc): a predicate that is not a 3-tuple is printed and skipped; of
\* the others, the sides that hold a '.' give their second part
extract_attributes(dc) ==
    UNION {{SecondPart(side) : side \in {x \in {dc[k][1], dc[k][3]} : Len(x) >= 2}} :
              k \in {j \in DOMAIN dc : Len(dc[j]) = 3}}

\* attrs_in_dc of _initialize_constraint_cells: only the predicates with len(pred) == 3
attrs_in_dc(dc) ==
    UNION {{SecondPart(dc[k][1]), SecondPart(dc[k][3])} : k \in {j \in DOMAIN dc : Len(dc[j]) = 3}}

\* RTFCorrectedAlgorithm._initialize_constraint_cells: the columns of the constraint cells
initialize_constraint_cells(dcs, r, target_attr) ==
    LET related_attrs == UNION {attrs_in_dc(dcs[i]) : i \in {j \in DOMAIN dcs : target_attr \in attrs_in_dc(dcs[j])}}
    IN  {attr \in related_attrs \ {target_attr} : attr \in r}

InitDc(P, R) ==
    /\ denial_constraints \in SeqsUpTo(SeqsUpTo(P, MaxPreds) \ {<<>>}, MaxDCs)
    /\ row \in R
    /\ dpc = "ready"
    /\ operation = None
    /\ argument = None
    /\ returned = Returns(<<>>)
    /\ previous = <<>>
    /\ visited_attrs = {}
    /\ frontier = <<>>
    /\ next_frontier = <<>>

\* may the operation name be called with argument arg: as the first call, or again on
\* the same inputs, while fewer than MaxCalls calls were made
Callable(name, arg) ==
    \/ dpc = "ready"
    \/ /\ dpc \in {"returned", "raised"} /\ operation = name /\ argument = arg
       /\ Len(previous) + 1 < MaxCalls

\* the call of name with arg ends with result
Called(name, arg, result) ==
    /\ operation' = name
    /\ argument' = arg
    /\ previous' = IF dpc = "ready" THEN <<>> ELSE Append(previous, returned)
    /\ returned' = result
    /\ dpc' = IF result.raised THEN "raised" ELSE "returned"
    /\ UNCHANGED <<denial_constraints, row, visited_attrs, frontier, next_frontier>>
    /\ UNCHANGED <<treeVars, optVars, bndVars, idxVars, gdVars>>

\* HyperedgeBuilder(dataset).build_hyperedges(row, key, target_attr) for the target attribute
BuildHyperedgesMethod ==
    /\ Callable("HyperedgeBuilder.build_hyperedges", start_attr)
    /\ Called("HyperedgeBuilder.build_hyperedges", start_attr,
              HyperedgeBuilder_build_hyperedges(denial_constraints, row, start_attr))

\* build_hypergrapgh.build_hyperedges(row, key, target_attr) for the target attribute
BuildHyperedgesFunction ==
    /\ Callable("build_hyperedges", start_attr)
    /\ Called("build_hyperedges", start_attr,
              build_hyperedges(denial_constraints, row, start_attr))

\* get_target_dc_list(column_name), the same text in build_attrib_dep_graph.py and in
\* DomianInferFromDC
GetTargetDcList ==
    \E column_name \in Attrs :
        /\ Callable("get_target_dc_list", column_name)
        /\ Called("get_target_dc_list", column_name,
                  Returns(get_target_dc_list(denial_constraints, column_name)))

\* extract_attributes(dc) for a DC of the list, as build_dependency_graph calls it
ExtractAttributes ==
    \E i \in DOMAIN denial_constraints :
        /\ Callable("extract_attributes", i)
        /\ Called("extract_attributes", i, Returns(extract_attributes(denial_constraints[i])))

\* RTFCorrectedAlgorithm._initialize_constraint_cells for the target cell's attribute;
\* _initialize_algorithm builds the target cell from row_data first (KeyError when the
\* row lacks the attribute)
InitializeConstraintCells ==
    /\ Callable("_initialize_constraint_cells", start_attr)
    /\ Called("_initialize_constraint_cells", start_attr,
              IF HasKey(row, start_attr)
              THEN Returns(initialize_constraint_cells(denial_constraints, row, start_attr))
              ELSE Raises)

(***************************************************************************)
(* HyperedgeBuilder.build_hyperedge_map, followed by the tree build of     *)
(* Part I on the map it returns                                            *)
(***************************************************************************)
MaxMapDCs == 1      \* denial constraints of a workflow run
MaxMapPreds == 3    \* predicates per denial constraint of a workflow run

MapDCLists ==
    SeqsUpTo(SeqsUpTo({Predicate(a, a) : a \in Attrs} \cup {Predicate("num", start_attr)},
                      MaxMapPreds) \ {<<>>},
             MaxMapDCs)

\* {cell: [] for cell in all_cells.values()}
EmptyMap(r) == [col \in r |-> <<>>]

RECURSIVE Flatten(_)
Flatten(hyperedges) ==
    IF hyperedges = <<>> THEN <<>> ELSE Head(hyperedges) \o Flatten(Tail(hyperedges))

\* `if col not in visited_attrs: visited_attrs.add(col); next_frontier.append(col)` over
\* the tail cells of the hyperedges, in order
RECURSIVE Enqueue(_, _, _)
Enqueue(cells, visited, nxt) ==
    IF cells = <<>> THEN [visited_attrs |-> visited, next_frontier |-> nxt]
    ELSE IF Head(cells) \in visited THEN Enqueue(Tail(cells), visited, nxt)
    ELSE Enqueue(Tail(cells), visited \cup {Head(cells)}, Append(nxt, Head(cells)))

InitMap ==
    /\ row \in Rows
    /\ \/ /\ pc = "fetched"
          /\ denial_constraints \in MapDCLists
          /\ hyperedge_map = <<>>
       \/ \* build_hypergraph_tree_with_costs called on its own with the map of a row
          \* that no DC applies to
          /\ pc = "start"
          /\ denial_constraints = <<>>
          /\ hyperedge_map = EmptyMap(row)
    /\ stack = <<>> /\ node_map = <<>> /\ min_cell = <<>> /\ root = None
    /\ deleted = None /\ to_delete = {} /\ queue = <<>>
    /\ dpc = "idle" /\ operation = None /\ argument = None /\ returned = Returns(<<>>)
    /\ previous = <<>> /\ visited_attrs = {} /\ frontier = <<>> /\ next_frontier = <<>>

\* build_hyperedge_map up to the BFS loop: all_cells, the empty map, the first frontier
MapStart ==
    /\ pc = "fetched"
    /\ hyperedge_map' = EmptyMap(row)
    /\ visited_attrs' = {start_attr}
    /\ frontier' = <<start_attr>>
    /\ next_frontier' = <<>>
    /\ pc' = "map"
    /\ UNCHANGED <<stack, node_map, min_cell, root, deleted, to_delete, queue>>
    /\ UNCHANGED <<denial_constraints, row, dpc, operation, argument, returned, previous>>
    /\ UNCHANGED <<optVars, bndVars, idxVars, gdVars>>

\* one turn of `for target_attr in frontier`: all_cells[target_attr], build_hyperedges,
\* the appends to the map and to next_frontier; after the last attribute of the frontier
\* `frontier = next_frontier`, and the map is returned once that is empty
MapExpand ==
    /\ pc = "map"
    /\ frontier # <<>>
    /\ LET target_attr == Head(frontier)
           built == HyperedgeBuilder_build_hyperedges(denial_constraints, row, target_attr)
           found == Enqueue(Flatten(built.value), visited_attrs, next_frontier)
       IN  IF ~HasKey(row, target_attr) \/ built.raised
           THEN /\ pc' = "raised"
                /\ UNCHANGED <<hyperedge_map, visited_attrs, frontier, next_frontier>>
           ELSE /\ hyperedge_map' = [hyperedge_map EXCEPT ![target_attr] = @ \o built.value]
                /\ visited_attrs' = found.visited_attrs
                /\ IF Tail(frontier) # <<>>
                   THEN /\ frontier' = Tail(frontier)
                        /\ next_frontier' = found.next_frontier
                        /\ pc' = "map"
                   ELSE /\ frontier' = found.next_frontier
                        /\ next_frontier' = <<>>
                        /\ pc' = IF found.next_frontier = <<>> THEN "start" ELSE "map"
    /\ UNCHANGED <<stack, node_map, min_cell, root, deleted, to_delete, queue>>
    /\ UNCHANGED <<denial_constraints, row, dpc, operation, argument, returned, previous>>
    /\ UNCHANGED <<optVars, bndVars, idxVars, gdVars>>

\* the denial-constraint lists of the repeated workflow: same-column comparisons only
InitWorkflow ==
    /\ row \in Rows
    /\ denial_constraints \in
           SeqsUpTo(SeqsUpTo({Predicate(a, a) : a \in Attrs}, MaxMapPreds) \ {<<>>}, MaxDCs)
    /\ pc = "fetched"
    /\ hyperedge_map = <<>>
    /\ stack = <<>> /\ node_map = <<>> /\ min_cell = <<>> /\ root = None
    /\ deleted = None /\ to_delete = {} /\ queue = <<>>
    /\ dpc = "idle" /\ operation = None /\ argument = None /\ returned = Returns(<<>>)
    /\ previous = <<>> /\ visited_attrs = {} /\ frontier = <<>> /\ next_frontier = <<>>

\* combined_rtf_workflow(key, target_attr) called once more for the same row, with the
\* denial constraints listed in another order; previous keeps the set it returned before
WorkflowAgain ==
    /\ pc = "done"
    /\ deleted = start_attr
    /\ previous = <<>>
    /\ \E order \in Permutations(DOMAIN denial_constraints) :
          denial_constraints' = [i \in DOMAIN denial_constraints |-> denial_constraints[order[i]]]
    /\ previous' = <<to_delete>>
    /\ pc' = "fetched"
    /\ hyperedge_map' = <<>>
    /\ stack' = <<>> /\ node_map' = <<>> /\ min_cell' = <<>> /\ root' = None
    /\ deleted' = None /\ to_delete' = {} /\ queue' = <<>>
    /\ UNCHANGED <<row, dpc, operation, argument, returned, visited_attrs, frontier, next_frontier>>
    /\ UNCHANGED <<optVars, bndVars, idxVars, gdVars>>

(***************************************************************************)
(* Part IV: bounds of an attribute from a known value of another           *)
(*          (ID Computation/IGC_d_getBounds.py and getBounds.py)           *)
(*                                                                         *)
(* A table row is [a, b, j]: a is the value of the target attribute, b the *)
(* value of the known attribute and j the value of the column that the     *)
(* join condition names; a table that lacks one of them holds 0 there.     *)
(***************************************************************************)
MaxValue == 2       \* attribute values are 0..MaxValue
MaxRows == 2        \* rows of a table

Values == 0..MaxValue

\* the tables of up to MaxRows rows [a, b, j] with a in A, b in B and j in J
TablesOver(A, B, J) ==
    {t \in SUBSET {[a |-> a, b |-> b, j |-> j] : a \in A, b \in B, j \in J} :
        Cardinality(t) <= MaxRows}

\* values a bound can take in Python: a number, None, float('-inf'), float('inf')
Number(n) == [kind |-> "number", n |-> n]
PyNone == [kind |-> "None", n |-> 0]
NegInf == [kind |-> "-inf", n |-> 0]
PosInf == [kind |-> "inf", n |-> 0]

MaxOf(S) == CHOOSE m \in S : \A n \in S : n <= m
MinOf(S) == CHOOSE m \in S : \A n \in S : m <= n

\* result set of SELECT MAX(a) / SELECT MIN(a) over the qualifying rows: always one
\* row, holding NULL when no row qualifies
SelectMax(rows) == <<IF rows = {} THEN PyNone ELSE Number(MaxOf({r.a : r \in rows}))>>
SelectMin(rows) == <<IF rows = {} THEN PyNone ELSE Number(MinOf({r.a : r \in rows}))>>

\* cursor.fetchone(): the first row of the result set, or None when it is empty
NoRow == [kind |-> "no row", n |-> 0]
fetchone(result_set) == IF result_set = <<>> THEN NoRow ELSE result_set[1]

\* `if pred`: a fetched row is a non-empty dictionary, whatever value it holds
Truthy(fetched) == fetched # NoRow

\* `lower = pred['max_val'] if pred else float('-inf')` and its twin for upper
BoundsOf(pred, succ) ==
    <<IF Truthy(pred) THEN pred ELSE NegInf, IF Truthy(succ) THEN succ ELSE PosInf>>

\* bounds taken from the wrong sides of the known value
get_bounds_opposite_sides(table, v) ==
    BoundsOf(fetchone(SelectMax({r \in table : r.b > v})),
             fetchone(SelectMin({r \in table : r.b < v})))

get_bounds_same_table(table, v) ==
    BoundsOf(fetchone(SelectMax({r \in table : r.b < v})),
             fetchone(SelectMin({r \in table : r.b > v})))

\* self.primary_keys and self.foreign_keys as __init__ sets them
primary_keys(db) ==
    IF db = "RTF25" THEN [t \in {"*"} |-> <<"EID">>]
    ELSE [t \in {"region", "nation", "supplier", "customer", "part", "partsupp",
                 "orders", "lineitem"} |->
            CASE t = "region" -> <<"r_regionkey">>
              [] t = "nation" -> <<"n_nationkey">>
              [] t = "supplier" -> <<"s_suppkey">>
              [] t = "customer" -> <<"c_custkey">>
              [] t = "part" -> <<"p_partkey">>
              [] t = "partsupp" -> <<"ps_partkey", "ps_suppkey">>
              [] t = "orders" -> <<"o_orderkey">>
              [] t = "lineitem" -> <<"l_orderkey", "l_linenumber">>]

\* each entry (table1, table2): [(col1, col2)] as <<table1, table2, col1, col2>>
foreign_keys(db) ==
    IF db = "RTF25" THEN {}
    ELSE {<<"customer", "orders", "c_custkey", "o_custkey">>,
          <<"orders", "lineitem", "o_orderkey", "l_orderkey">>,
          <<"lineitem", "part", "l_partkey", "p_partkey">>,
          <<"lineitem", "supplier", "l_suppkey", "s_suppkey">>,
          <<"part", "partsupp", "p_partkey", "ps_partkey">>,
          <<"supplier", "partsupp", "s_suppkey", "ps_suppkey">>,
          <<"customer", "nation", "c_nationkey", "n_nationkey">>,
          <<"supplier", "nation", "s_nationkey", "n_nationkey">>,
          <<"nation", "region", "n_regionkey", "r_regionkey">>}

\* str.lower() on the table and database names the calls of the model use
Lower(name) ==
    CASE name = "ORDERS" -> "orders"
      [] name = "RTF25" -> "rtf25"
      [] name = "Customer" -> "customer"
      [] name = "Tax" -> "tax"
      [] name = "Employee" -> "employee"
      [] OTHER -> name

\* primary_keys.get(table, [])
KeysOf(db, table) ==
    IF table \in DOMAIN primary_keys(db) THEN primary_keys(db)[table] ELSE <<>>

\* the set of column pairs the join condition equates, or the ValueError
get_join_conditions(db, t1, t2) ==
    LET table1 == Lower(t1)
        table2 == Lower(t2)
        direct == {fk \in foreign_keys(db) : fk[1] = table1 /\ fk[2] = table2}
        reverse == {fk \in foreign_keys(db) : fk[1] = table2 /\ fk[2] = table1}
        keys1 == KeysOf(db, table1)
        keys2 == KeysOf(db, table2)
        common_keys == Range(keys1) \cap Range(keys2)
    IN  IF direct # {} THEN Returns({<<fk[3], fk[4]>> : fk \in direct})
        ELSE IF reverse # {} THEN Returns({<<fk[4], fk[3]>> : fk \in reverse})
        ELSE IF keys1 = <<>> \/ keys2 = <<>> THEN Raises
        ELSE IF common_keys = {} THEN Raises
        ELSE Returns({<<key, key>> : key \in common_keys})

\* rows t1 of the target table for which EXISTS a row t2 of the known table that
\* satisfies the comparison and the join condition
Joined(target, known) == {t1 \in target : \E t2 \in known : t1.j = t2.j}

get_bounds_cross_table(db, t_table, k_table, target, known, v) ==
    LET join_conditions == get_join_conditions(db, t_table, k_table)
    IN  IF join_conditions.raised THEN Raises
        ELSE Returns(BoundsOf(
                 fetchone(SelectMax(Joined(target, {t2 \in known : t2.b < v}))),
                 fetchone(SelectMin(Joined(target, {t2 \in known : t2.b > v})))))

\* DomainInfer.get_bounds_int_int: the dispatch on the two table names
get_bounds_int_int(db, t_table, k_table, target, known, v) ==
    IF t_table = k_table
    THEN Returns(get_bounds_same_table(target, v))
    ELSE get_bounds_cross_table(db, t_table, k_table, target, known, v)

\* result sets SELECT a ... ORDER BY b DESC / ASC LIMIT 1 can give: the a of a row
\* whose b is nearest to v on that side (any of them when several rows tie on b)
NearestBelow(table, v) ==
    {r \in table : r.b < v /\ \A q \in table : q.b < v => q.b <= r.b}
NearestAbove(table, v) ==
    {r \in table : r.b > v /\ \A q \in table : q.b > v => q.b >= r.b}
Limit1(rows) == IF rows = {} THEN {<<>>} ELSE {<<Number(r.a)>> : r \in rows}

\* the calls of the model: <<database, target table, known table>>
Calls ==
    {<<"RTF25", "Tax", "Tax">>,             \* one table
     <<"tpchdb", "orders", "orders">>,      \* one table
     <<"tpchdb", "customer", "orders">>,    \* a foreign key, as listed
     <<"tpchdb", "lineitem", "ORDERS">>,    \* a foreign key, listed the other way round
     <<"tpchdb", "customer", "part">>,      \* no foreign key, no common primary key
     <<"tpchdb", "customer", "employee">>,  \* a table without primary keys
     <<"RTF25", "Employee", "Tax">>}        \* RTF25 lists its keys under '*' only

InitBounds ==
    /\ known_value \in Values
    /\ \E call \in Calls :
          database = call[1] /\ target_table = call[2] /\ known_table = call[3]
    /\ \/ /\ target_table = known_table
          /\ target_rows \in TablesOver(Values, Values, {0})
          /\ known_rows = target_rows
       \/ /\ target_table # known_table
          /\ target_rows \in TablesOver(Values, {0}, 0..1)
          /\ known_rows \in TablesOver({0}, Values, 0..1)
    /\ bpc = "ready"
    /\ inferer = None
    /\ bounds = <<NoRow, NoRow>>

\* DomainInfer(database=...).get_bounds_int_int(a, target_table, b, known_table, v)
GetBoundsIntInt ==
    /\ bpc = "ready"
    /\ LET result == get_bounds_int_int(database, target_table, known_table,
                                        target_rows, known_rows, known_value)
       IN  /\ bpc' = IF result.raised THEN "raised" ELSE "returned"
           /\ bounds' = IF result.raised THEN bounds ELSE result.value
    /\ inferer' = "DomainInfer"
    /\ UNCHANGED <<database, target_table, known_table, target_rows, known_rows, known_value>>
    /\ UNCHANGED <<treeVars, optVars, dcVars, idxVars, gdVars>>

\* DomainInferer(database=...).get_bounds_int_int(a, b, v, table_name), on one table
GetBoundsOrdered ==
    /\ bpc = "ready"
    /\ target_table = known_table
    /\ \E lower_set \in Limit1(NearestBelow(target_rows, known_value)) :
         \E upper_set \in Limit1(NearestAbove(target_rows, known_value)) :
            bounds' = BoundsOf(fetchone(lower_set), fetchone(upper_set))
    /\ bpc' = "returned"
    /\ inferer' = "DomainInferer"
    /\ UNCHANGED <<database, target_table, known_table, target_rows, known_rows, known_value>>
    /\ UNCHANGED <<treeVars, optVars, dcVars, idxVars, gdVars>>

(***************************************************************************)
(* Part V: the index from attributes to denial constraints                 *)
(*         (DataGeneration/dc_lookup.py, DC and Delset/dc_lookup.py,       *)
(*          DataGeneration/ig_constructuon.py)                             *)
(*                                                                         *)
(* A dictionary of denial constraints is the list of its items in          *)
(* insertion order, each <<label, list of attributes>>, labels distinct.   *)
(***************************************************************************)
MaxIdxDCs == 2      \* denial constraints of a drawn dictionary
MaxIdxAttrs == 2    \* attributes of one of its denial constraints

\* the dictionary of the scripts' own example
ExamplePhi ==
    << <<"phi1", <<"Tax", "Salary">> >>,
       <<"phi2", <<"Role", "SalPrHr">> >>,
       <<"phi3", <<"Salary", "SalPrHr", "WrkHr">> >>,
       <<"phi4", <<"Role", "SalPrHr">> >> >>

\* dc_configs/tpch_dcs.py
tpch_dcs ==
    << <<"phi1", <<"Customer", "Supplier">> >>,
       <<"phi2", <<"Receiptdate", "Shipdate">> >>,
       <<"phi3", <<"ExtPrice", "Discount">> >>,
       <<"phi4", <<"Qty", "Tax", "ExtPrice", "Discount">> >> >>

\* the dictionaries drawn: up to MaxIdxDCs labels (distinct, as the keys of a dict are),
\* each with up to MaxIdxAttrs attributes, and the two dictionaries above
Dicts ==
    {items \in SeqsUpTo({"phi1", "phi2", "phi3"}
                          \X SeqsUpTo({"Tax", "Salary", "Role"}, MaxIdxAttrs), MaxIdxDCs) :
        \A i \in DOMAIN items : \A k \in DOMAIN items : items[i][1] = items[k][1] => i = k}
    \cup {ExamplePhi, tpch_dcs}

\* load_dc_config(db_name); rtf25_dcs stands for dc_configs/rtf25_dcs.denial_constraints
load_dc_config(name, rtf25_dcs) ==
    IF Lower(name) = "rtf25" THEN Returns(rtf25_dcs)
    ELSE IF Lower(name) = "tpchdb" THEN Returns(tpch_dcs)
    ELSE Raises

\* an update that replaces the attribute's set instead of adding to it
AddLabelOverwrite(table, attr, label) == (attr :> {label}) @@ table

\* `if attr not in lookup_table: lookup_table[attr] = set()`, then `.add(dc_label)`
AddLabel(table, attr, label) ==
    LET initialised == IF attr \in DOMAIN table THEN table ELSE (attr :> {}) @@ table
    IN  [initialised EXCEPT ![attr] = @ \cup {label}]

\* `L[attr].add(phi)` on a defaultdict(set)
DefaultDictAdd(L, attr, phi) ==
    LET got == IF attr \in DOMAIN L THEN L[attr] ELSE {}
    IN  (attr :> (got \cup {phi})) @@ L

RECURSIVE AddAttributes(_, _, _, _, _)
\* the inner loop `for attr in attributes` from position i on
AddAttributes(table, attributes, i, label, defaulting) ==
    IF i > Len(attributes) THEN table
    ELSE AddAttributes(IF defaulting THEN DefaultDictAdd(table, attributes[i], label)
                       ELSE AddLabel(table, attributes[i], label),
                       attributes, i + 1, label, defaulting)

RECURSIVE IndexItems(_, _, _, _)
\* the outer loop `for dc_label, attributes in denial_constraints.items()` from item k on
IndexItems(table, items, k, defaulting) ==
    IF k > Len(items) THEN table
    ELSE IndexItems(AddAttributes(table, items[k][2], 1, items[k][1], defaulting),
                    items, k + 1, defaulting)

generate_lookup_table(dcs) == IndexItems(<<>>, dcs, 1, FALSE)

index_constraints(dcs) == IndexItems(<<>>, dcs, 1, TRUE)

InitIndex ==
    /\ Phi \in Dicts
    /\ db_name \in {"rtf25", "RTF25", "tpchdb", "adult"}
    /\ ipc = "ready"
    /\ indexer = None
    /\ indexed = <<>>
    /\ lookup_table = <<>>

\* DataGeneration/dc_lookup.py: generate_lookup_table(denial_constraints)
GenerateLookupTable ==
    /\ ipc = "ready"
    /\ indexer' = "generate_lookup_table"
    /\ indexed' = Phi
    /\ lookup_table' = generate_lookup_table(Phi)
    /\ ipc' = "returned"
    /\ UNCHANGED <<Phi, db_name, treeVars, optVars, dcVars, bndVars, gdVars>>

\* DC and Delset/dc_lookup.py: generate_lookup_table(db_name)
GenerateLookupTableForDb ==
    /\ ipc = "ready"
    /\ indexer' = "generate_lookup_table(db_name)"
    /\ LET denial_constraints_loaded == load_dc_config(db_name, Phi)
       IN  IF denial_constraints_loaded.raised
           THEN ipc' = "raised" /\ UNCHANGED <<indexed, lookup_table>>
           ELSE /\ indexed' = denial_constraints_loaded.value
                /\ lookup_table' = generate_lookup_table(denial_constraints_loaded.value)
                /\ ipc' = "returned"
    /\ UNCHANGED <<Phi, db_name, treeVars, optVars, dcVars, bndVars, gdVars>>

\* DataGeneration/ig_constructuon.py: index_constraints(Phi)
IndexConstraints ==
    /\ ipc = "ready"
    /\ indexer' = "index_constraints"
    /\ indexed' = Phi
    /\ lookup_table' = index_constraints(Phi)
    /\ ipc' = "returned"
    /\ UNCHANGED <<Phi, db_name, treeVars, optVars, dcVars, bndVars, gdVars>>

(***************************************************************************)
(* Part VI: get_global_domain (ID Computation/get_global_domain.py)        *)
(*                                                                         *)
(* Dt maps a row id to the row; of a row only the entry of the attribute   *)
(* asked about matters: a number, a string, None, or no entry at all.      *)
(* The domain returned is a one-interval list or a set of values.          *)
(***************************************************************************)
MaxDtRows == 2      \* rows of Dt

\* get_global_domain(Dt, attr, delset): the `return` taken, or the KeyError of
\* Dt[t][attr] on a row that has no entry for attr
get_global_domain(D, attr, del) ==
    LET get(t) == IF D[t] = NoRow THEN PyNone ELSE D[t]       \* Dt[t].get(attr)
        added_rows == {t \in DOMAIN D : t \notin del \/ get(t) # PyNone}
        values == {D[t] : t \in added_rows}
        numbers == {v.n : v \in values}
    IN  IF \E t \in added_rows : D[t] = NoRow THEN Raises
        ELSE IF values # {}
        THEN IF \A v \in values : v.kind = "number"
             THEN Returns([kind |-> "list", lo |-> Number(MinOf(numbers)),
                           hi |-> Number(MaxOf(numbers)), values |-> {}])
             ELSE Returns([kind |-> "set", lo |-> PyNone, hi |-> PyNone, values |-> values])
        ELSE IF attr = "numeric"
        THEN Returns([kind |-> "list", lo |-> NegInf, hi |-> PosInf, values |-> {}])
        ELSE Returns([kind |-> "set", lo |-> PyNone, hi |-> PyNone,
                      values |-> {[kind |-> "str", n |-> 0]}])   \* {"ALL"}

\* the entry of the attribute in a row is a number, a string or None; NoRow stands
\* for a row without an entry for the attribute
InitDomain ==
    /\ \E n \in 0..MaxDtRows :
          Dt \in [1..n -> {Number(0), Number(1), [kind |-> "str", n |-> 1], PyNone, NoRow}]
    /\ domain_attr \in {"age", "numeric"}
    /\ delset \in SUBSET (DOMAIN Dt)
    /\ gpc = "ready"
    /\ domain = <<>>

\* domain = get_global_domain(Dt, attr, delset)
GetGlobalDomain ==
    /\ gpc = "ready"
    /\ LET result == get_global_domain(Dt, domain_attr, delset)
       IN  /\ gpc' = IF result.raised THEN "raised" ELSE "returned"
           /\ domain' = result.value
    /\ UNCHANGED <<Dt, domain_attr, delset, treeVars, optVars, dcVars, bndVars, idxVars>>

(***************************************************************************)
(* Specifications                                                          *)
(***************************************************************************)
\* the optimizer as constructed, for the behaviours of Part I
OptIdle ==
    /\ opc = "new" /\ threshold = 800 /\ factor = <<>> /\ constraint_cells = {}
    /\ current_deletion_set = {} /\ original_domain_size = 0
    /\ initial_restricted_domain_size = 0 /\ current_domain_size = 0 /\ iteration = 0
    /\ potential_plans = {} /\ round_start_set = {} /\ added = <<>> /\ sizes = <<>>
    /\ results = <<>>

\* no traversal, for the behaviours of Part II
TreeIdle ==
    /\ hyperedge_map = [a \in Attrs |-> <<>>] /\ pc = "idle" /\ stack = <<>> /\ node_map = <<>>
    /\ min_cell = <<>> /\ root = None /\ deleted = None /\ to_delete = {} /\ queue = <<>>

\* no operation of Part III running, the row holds every column
DcIdle ==
    /\ denial_constraints = <<>> /\ row = Attrs /\ dpc = "idle" /\ operation = None
    /\ argument = None /\ returned = Returns(<<>>) /\ previous = <<>>
    /\ visited_attrs = {} /\ frontier = <<>> /\ next_frontier = <<>>

\* no inferer constructed
BndIdle ==
    /\ database = "RTF25" /\ target_table = "Tax" /\ known_table = "Tax"
    /\ target_rows = {} /\ known_rows = {} /\ known_value = 0
    /\ bpc = "idle" /\ inferer = None /\ bounds = <<NoRow, NoRow>>

\* no indexer called
IdxIdle ==
    /\ Phi = <<>> /\ db_name = "rtf25" /\ ipc = "idle" /\ indexer = None
    /\ indexed = <<>> /\ lookup_table = <<>>

\* get_global_domain not called
GdIdle ==
    /\ Dt = <<>> /\ domain_attr = "age" /\ delset = {} /\ gpc = "idle" /\ domain = <<>>

NextTree ==
    \/ BuildStart
    \/ BuildSkipHyperedge
    \/ BuildSkipTail
    \/ BuildRecurse
    \/ BuildAddBranch
    \/ BuildReturn
    \/ DeleteStart
    \/ DeleteVisit
    \/ DeleteReturn

NextOpt ==
    \/ Initialize
    \/ LoopExit
    \/ ThresholdBreak
    \/ RoundBegin
    \/ OrderedAnalysis
    \/ OrderedAnalysisRaises
    \/ DecideAndAct
    \/ ActRaises
    \/ GenerateResults

Init == InitTree /\ OptIdle /\ DcIdle /\ BndIdle /\ IdxIdle /\ GdIdle
Next == NextTree
Spec == Init /\ [][Next]_vars

\* the traversal is a synchronous call: it keeps running until it returns
FairSpec == Init /\ [][Next]_vars /\ WF_vars(Next)

OptInit == TreeIdle /\ InitOpt /\ DcIdle /\ BndIdle /\ IdxIdle /\ GdIdle
OptSpec == OptInit /\ [][NextOpt]_vars

\* the two hyperedge builders on every DC list and row
NextHe ==
    \/ BuildHyperedgesMethod
    \/ BuildHyperedgesFunction

HeInit == TreeIdle /\ OptIdle /\ InitDc(Predicates, Rows) /\ BndIdle /\ IdxIdle /\ GdIdle
HeSpec == HeInit /\ [][NextHe]_vars

\* the readers of the predicates on DC lists that may hold a malformed predicate
NextDc ==
    \/ BuildHyperedgesMethod
    \/ GetTargetDcList
    \/ ExtractAttributes
    \/ InitializeConstraintCells

DcInit ==
    TreeIdle /\ OptIdle /\ InitDc(Predicates \cup {MalformedPredicate}, {Attrs}) /\ BndIdle /\ IdxIdle /\ GdIdle
DcSpec == DcInit /\ [][NextDc]_vars

\* build_hyperedge_map and the tree build on its result
NextMap ==
    \/ MapStart
    \/ MapExpand
    \/ BuildStart
    \/ BuildSkipHyperedge
    \/ BuildSkipTail
    \/ BuildRecurse
    \/ BuildAddBranch
    \/ BuildReturn

MapInit == InitMap /\ OptIdle /\ BndIdle /\ IdxIdle /\ GdIdle
MapSpec == MapInit /\ [][NextMap]_vars

\* combined_rtf_workflow, run twice on the same row
NextWorkflow ==
    \/ MapStart
    \/ MapExpand
    \/ BuildStart
    \/ BuildSkipHyperedge
    \/ BuildSkipTail
    \/ BuildRecurse
    \/ BuildAddBranch
    \/ BuildReturn
    \/ DeleteStart
    \/ DeleteVisit
    \/ DeleteReturn
    \/ WorkflowAgain

WorkflowInit == InitWorkflow /\ OptIdle /\ BndIdle /\ IdxIdle /\ GdIdle
WorkflowSpec == WorkflowInit /\ [][NextWorkflow]_vars

\* the two bounds inferers on every table content
NextBounds ==
    \/ GetBoundsIntInt
    \/ GetBoundsOrdered

BoundsInit == TreeIdle /\ OptIdle /\ DcIdle /\ InitBounds /\ IdxIdle /\ GdIdle
BoundsSpec == BoundsInit /\ [][NextBounds]_vars

\* the three indexers on every dictionary
NextIndex ==
    \/ GenerateLookupTable
    \/ GenerateLookupTableForDb
    \/ IndexConstraints

IndexInit == TreeIdle /\ OptIdle /\ DcIdle /\ BndIdle /\ InitIndex /\ GdIdle
IndexSpec == IndexInit /\ [][NextIndex]_vars

\* get_global_domain on every database state and deletion set
DomainInit == TreeIdle /\ OptIdle /\ DcIdle /\ BndIdle /\ IdxIdle /\ InitDomain
DomainSpec == DomainInit /\ [][GetGlobalDomain]_vars

(***************************************************************************)
(* Properties of Part I (checked under Spec, C4 under FairSpec)            *)
(***************************************************************************)
Branches(a) == node_map[a].branches
TailCells(a, b) == Range(hyperedge_map[a][b.he])

\* C1: in the set returned by optimal_delete_with_precomputed_costs, every cell's node
\* has, for each of its branches with children, at least one tail cell of that
\* branch's hyperedge in the set (every hyperedge that could rebuild a deleted cell
\* is blocked)
C1_EveryHyperedgeBlocked ==
    (pc = "done" /\ deleted \in to_delete) =>
        \A c \in to_delete :
            \A i \in DOMAIN Branches(c) :
                Branches(c)[i].children # <<>> => TailCells(c, Branches(c)[i]) \cap to_delete # {}

RECURSIVE SumOfBranchMinima(_, _)
SumOfBranchMinima(branches, i) ==
    IF i > Len(branches) THEN 0
    ELSE node_map[MinChild(branches[i].children, node_map)].cost + SumOfBranchMinima(branches, i + 1)

\* C2: after the build every node's cost is 1 plus the sum, over its branches, of the
\* minimal cost among the branch's children (1 for a node without branches)
C2_CostIsOnePlusSumOfMinima ==
    pc = "built" =>
        \A a \in DOMAIN node_map : node_map[a].cost = 1 + SumOfBranchMinima(Branches(a), 1)

\* C3: the set returned by optimal_delete_with_precomputed_costs contains the cell
\* `deleted`, whether or not that cell occurs in the tree
C3_ReturnsTarget ==
    pc = "done" => deleted \in to_delete

\* C4: build_hypergraph_tree_with_costs returns a root node after finitely many
\* recursive calls, also when the head-to-tail relation of the map has cycles; the
\* recursion never goes deeper than the number of attributes
C4_BuildTerminates ==
    /\ <>(pc = "built" /\ root = start_attr /\ stack = <<>>)
    /\ [](Len(stack) <= Cardinality(Attrs))

TailAttrs(a) == UNION {Range(hyperedge_map[a][i]) : i \in DOMAIN hyperedge_map[a]}

\* the build has returned on a map where two attributes are each other's tail and a
\* third closes a longer cycle
C4_Witness ==
    /\ pc = "built"
    /\ DOMAIN node_map = Attrs
    /\ "num" \in TailAttrs("edu") /\ "age" \in TailAttrs("num") /\ "edu" \in TailAttrs("age")
    /\ "edu" \in TailAttrs("num")

(***************************************************************************)
(* Properties of Part II (checked under OptSpec)                           *)
(***************************************************************************)
\* C5: in every round the target cell is in current_deletion_set and the set after the
\* step contains the set before it (no cell is ever removed)
C5_DeletionSetGrows ==
    [][opc # "new" =>
         (Target \in current_deletion_set /\ current_deletion_set \subseteq current_deletion_set')]_vars

\* a run that went through rounds and committed two constraint cells
C5_Witness ==
    opc = "done" /\ Cardinality(current_deletion_set) >= 3 /\ Target \in current_deletion_set

RatioReached ==
    original_domain_size > 0 /\ current_domain_size * 1000 >= threshold * original_domain_size

StopsWhenRatioReached ==
    (opc = "loop" /\ HasActiveConstraints /\ RatioReached)
        => (opc' = "results" /\ current_deletion_set' = current_deletion_set)

FrozenOnceStopped ==
    opc \in {"results", "done"} => (current_deletion_set' = current_deletion_set)

FirstDeletionSuffices ==
    /\ opc = "done"
    /\ Len(sizes) >= 1
    /\ original_domain_size > 0
    /\ sizes[1] * 1000 >= threshold * original_domain_size

\* C7: once current_domain_size / original_domain_size >= alpha at the start of a round
\* the run stops and the deletion set stays as it is; a run whose first deletion
\* reaches the ratio (alpha 0.8, original size 16, size 13) ends with exactly 2 cells
C7_StopsAtThreshold ==
    /\ [][StopsWhenRatioReached]_vars
    /\ [][FrozenOnceStopped]_vars
    /\ [](FirstDeletionSuffices => Cardinality(current_deletion_set) = 2)

\* alpha 0.8, original size 16, the first deletion raised the size to 13 and the run
\* ended with a constraint cell still active
C7_Witness ==
    /\ opc = "done"
    /\ threshold = 800 /\ original_domain_size = 16
    /\ initial_restricted_domain_size < 13 /\ sizes = <<13>>
    /\ HasActiveConstraints
    /\ Cardinality(current_deletion_set) = 2

\* C8: a candidate is added to the deletion set only if its benefit is strictly positive
C8_OnlyPositiveBenefitCommitted ==
    \A i \in DOMAIN added : added[i][1] > 0

\* C9: the run ends after at most MaxIterations rounds and commits at most
\* MaxIterations auxiliary cells
C9_AtMostCeilingRounds ==
    opc = "done" =>
        /\ iteration <= MaxIterations
        /\ Cardinality(current_deletion_set \ {Target}) <= MaxIterations

\* C10: when a collaborator call raises during a round, current_deletion_set is what it
\* was when the round began
C10_RoundFailsAtomically ==
    opc = "raised" => current_deletion_set = round_start_set

(***************************************************************************)
(* Properties of Part III (checked under HeSpec, DcSpec and MapSpec)       *)
(***************************************************************************)
Mentions(pred, target) == LastPart(pred[1]) = target \/ LastPart(pred[3]) = target

HasHead(dc, target) == \E k \in DOMAIN dc : Mentions(dc[k], target)

FirstMention(dc, target) ==
    CHOOSE k \in DOMAIN dc :
        Mentions(dc[k], target) /\ \A j \in 1..(k - 1) : ~Mentions(dc[j], target)

OtherLeftColumns(dc, target) ==
    {LastPart(dc[j][1]) : j \in DOMAIN dc \ {FirstMention(dc, target)}}

ReturnedTailSets == {frozenset(returned.value[i]) : i \in DOMAIN returned.value}

IsBuilder == operation \in {"HyperedgeBuilder.build_hyperedges", "build_hyperedges"}

RowHoldsEveryLeftColumn ==
    \A i \in DOMAIN denial_constraints : \A k \in DOMAIN denial_constraints[i] :
        LastPart(denial_constraints[i][k][1]) \in row

\* C11: build_hyperedges returns, for each DC that has a predicate mentioning the target,
\* one hyperedge whose tail is the left columns of every other predicate of that DC
\* (head = the first mentioning predicate), and nothing for the other DCs; stated on
\* rows that hold every left column
C11_HeadAndTail ==
    (IsBuilder /\ dpc = "returned" /\ RowHoldsEveryLeftColumn) =>
        ReturnedTailSets =
            {OtherLeftColumns(denial_constraints[i], argument) :
                i \in {j \in DOMAIN denial_constraints : HasHead(denial_constraints[j], argument)}}

Permuted(dcs, p) == [i \in DOMAIN dcs |-> dcs[p[i]]]

BuilderResult(name, dcs) ==
    IF name = "build_hyperedges"
    THEN build_hyperedges(dcs, row, argument)
    ELSE HyperedgeBuilder_build_hyperedges(dcs, row, argument)

TailSets(result) ==
    [raised |-> result.raised,
     value  |-> {frozenset(result.value[i]) : i \in DOMAIN result.value}]

\* C12: for a fixed row and target, a second call of build_hyperedges gives the same
\* set of hyperedges as the first, and so does a call on any permutation of the
\* denial-constraint list (hyperedges compared by the set of their tail cells)
C12_IdempotentAndOrderIndependent ==
    (IsBuilder /\ dpc \in {"returned", "raised"}) =>
        /\ \A k \in DOMAIN previous : TailSets(previous[k]) = TailSets(returned)
        /\ \A p \in Permutations(DOMAIN denial_constraints) :
               TailSets(BuilderResult(operation, Permuted(denial_constraints, p)))
                   = TailSets(returned)

\* the method was called twice on two DCs that give two different hyperedges
C12_Witness ==
    /\ operation = "HyperedgeBuilder.build_hyperedges"
    /\ dpc = "returned"
    /\ Len(previous) >= 1
    /\ Len(denial_constraints) = 2
    /\ Cardinality(TailSets(returned).value) = 2

HasMalformed(dc) == \E k \in DOMAIN dc : ~Unpacks(dc[k])

ReadsPredicates ==
    operation \in {"HyperedgeBuilder.build_hyperedges", "extract_attributes",
                   "_initialize_constraint_cells"}

DCsRead == IF operation = "extract_attributes" THEN {argument} ELSE DOMAIN denial_constraints

\* C13: an operation that reads the predicates (hyperedge head search,
\* extract_attributes, the optimizer's constraint-cell discovery) ends in an error
\* whenever a DC it reads holds a predicate that is not a 3-tuple
C13_MalformedPredicateRejected ==
    (ReadsPredicates /\ dpc \in {"returned", "raised"}
        /\ \E i \in DCsRead : HasMalformed(denial_constraints[i]))
    => dpc = "raised"

WellFormed == \A i \in DOMAIN denial_constraints : ~HasMalformed(denial_constraints[i])

\* C16: get_target_dc_list(column) returns the DCs in which some predicate has the
\* column as its left or as its right operand, each entry of the list once and in
\* list order
C16_ExactlyTheReferencingDCs ==
    (operation = "get_target_dc_list" /\ dpc \in {"returned", "raised"} /\ WellFormed) =>
        /\ dpc = "returned"
        /\ returned.value = SelectSeq(denial_constraints, LAMBDA dc : HasHead(dc, argument))

HeadedDCs == {i \in DOMAIN denial_constraints : HasHead(denial_constraints[i], argument)}

SomeTailColumnAbsent ==
    \E i \in HeadedDCs : ~(OtherLeftColumns(denial_constraints[i], argument) \subseteq row)

\* C20: when a tail predicate's left column is absent from the row, build_hyperedges
\* (method and module-level function) raises no error and builds each hyperedge from
\* the tail columns the row does hold (hyperedges with at least one tail cell compared)
C20_AbsentTailColumnDropped ==
    (IsBuilder /\ dpc \in {"returned", "raised"} /\ SomeTailColumnAbsent) =>
        /\ dpc = "returned"
        /\ ReturnedTailSets \ {{}} =
               {OtherLeftColumns(denial_constraints[i], argument) \cap row : i \in HeadedDCs} \ {{}}

StartAbsent == start_attr \notin row

NoCellForStart ==
    StartAbsent =>
        /\ pc \in {"fetched", "map", "start", "raised"}
        /\ start_attr \notin DOMAIN node_map
        /\ start_attr \notin DOMAIN hyperedge_map

FailsOnFirstLookup ==
    (StartAbsent /\ pc \in {"map", "start"}) => pc' = "raised"

\* C19: when the start attribute is not a column of the row, build_hyperedge_map and
\* build_hypergraph_tree_with_costs end in an error at their first lookup of it, and
\* neither a map entry nor a tree node is ever made for that attribute
C19_MissingStartAttributeFails ==
    []NoCellForStart /\ [][FailsOnFirstLookup]_vars

\* the map builder raised on a row without the start attribute, with a DC loaded
C19_Witness ==
    /\ StartAbsent
    /\ pc = "raised"
    /\ denial_constraints # <<>>
    /\ frontier = <<start_attr>>

(***************************************************************************)
(* A further property of Part I (checked under Spec)                       *)
(***************************************************************************)
ChildrenOf(a) == UNION {Range(Branches(a)[i].children) : i \in DOMAIN Branches(a)}

ChildCosts(a) == {node_map[c].cost : c \in ChildrenOf(a)}

\* C18: in a finished tree every node has cost >= 1, and a node with at least one
\* branch has cost >= 1 + the least cost among all its children
C18_CostMonotone ==
    pc = "built" =>
        \A a \in DOMAIN node_map :
            /\ node_map[a].cost >= 1
            /\ Branches(a) # <<>> =>
                   \E m \in ChildCosts(a) :
                       /\ \A n \in ChildCosts(a) : m <= n
                       /\ node_map[a].cost >= 1 + m

\* a finished tree whose root has two branches and a child that itself has a branch
C18_Witness ==
    /\ pc = "built"
    /\ Len(Branches(start_attr)) >= 2
    /\ \E c \in ChildrenOf(start_attr) : Branches(c) # <<>> /\ node_map[c].cost >= 2

(***************************************************************************)
(* Properties of Part IV (checked under BoundsSpec)                        *)
(***************************************************************************)
Below == {r \in known_rows : r.b < known_value}
Above == {r \in known_rows : r.b > known_value}

\* C14: on one table, get_bounds_int_int of both inferers returns lower = MAX(a) over
\* the rows with b < v and upper = MIN(a) over the rows with b > v (each stated where
\* such rows exist)
C14_BoundsAreMaxAndMin ==
    (bpc = "returned" /\ target_table = known_table) =>
        /\ Below # {} => bounds[1] = Number(MaxOf({r.a : r \in Below}))
        /\ Above # {} => bounds[2] = Number(MinOf({r.a : r \in Above}))

\* C15: DomainInfer.get_bounds_int_int (same-table and cross-table) returns lower =
\* -infinity when no row has b < v and upper = +infinity when no row has b > v
C15_AbsentBoundIsInfinite ==
    (bpc = "returned" /\ inferer = "DomainInfer") =>
        /\ Below = {} => bounds[1] = NegInf
        /\ Above = {} => bounds[2] = PosInf

(***************************************************************************)
(* Properties of Part V (checked under IndexSpec)                          *)
(***************************************************************************)
AttributesOf(items) == UNION {Range(items[k][2]) : k \in DOMAIN items}

LabelsOf(items) == {items[k][1] : k \in DOMAIN items}

\* the set the returned table holds for an attribute (none: no label)
SetFor(a) == IF a \in DOMAIN lookup_table THEN lookup_table[a] ELSE {}

\* C17: in the table an indexer returns, label d is in the set of attribute a exactly
\* when a occurs in d's attribute list, and the table has no other attribute or
\* label; for the example dictionary 'Salary' maps to exactly phi1 and phi3
C17_IndexIsExact ==
    ipc = "returned" =>
        /\ \A a \in AttributesOf(indexed) \cup DOMAIN lookup_table :
              \A k \in DOMAIN indexed :
                 (indexed[k][1] \in SetFor(a)) <=> (a \in Range(indexed[k][2]))
        /\ DOMAIN lookup_table = AttributesOf(indexed)
        /\ \A a \in DOMAIN lookup_table : lookup_table[a] \subseteq LabelsOf(indexed)
        /\ indexed = ExamplePhi => lookup_table["Salary"] = {"phi1", "phi3"}

\* generate_lookup_table has indexed the example dictionary
C17_Witness ==
    /\ ipc = "returned"
    /\ indexer = "generate_lookup_table"
    /\ indexed = ExamplePhi
    /\ Cardinality(lookup_table["SalPrHr"]) = 3


(***************************************************************************)
(* Properties of the result of Part II (checked under OptSpec)             *)
(***************************************************************************)
\* is the reported quotient at least alpha (both sides in exact arithmetic)
RatioAtLeastAlpha == results.privacy_ratio[1] * 1000 >= threshold * results.privacy_ratio[2]

\* C29: in the result of run_complete_algorithm, threshold_met is true exactly when
\* the reported privacy_ratio is >= alpha, for every original_domain_size >= 0
C29_ThresholdMetIffRatioReached ==
    opc = "done" => (results.threshold_met <=> RatioAtLeastAlpha)

\* the safety break `if iteration > 10` ended the loop: round 11 committed its plan
HitCeiling == iteration > MaxIterations /\ Len(added) = iteration

\* C30: for alpha <= 1, a run of run_complete_algorithm that returns without hitting
\* the iteration ceiling returns threshold_met = true
C30_ThresholdMetUnlessCeiling ==
    (opc = "done" /\ threshold <= 1000 /\ ~HitCeiling) => results.threshold_met

\* a run with alpha = 1 that returned after deleting several constraint cells, the
\* last of them lifting the domain size from below alpha to the original size
C30_Witness ==
    /\ opc = "done"
    /\ threshold = 1000
    /\ ~HitCeiling
    /\ Len(added) >= 2
    /\ sizes[Len(sizes) - 1] < original_domain_size
    /\ constraint_cells \subseteq current_deletion_set
    /\ results.threshold_met

(***************************************************************************)
(* Properties of the finished tree and of its construction (under Spec)    *)
(***************************************************************************)
MinCellOf(a, b) == IF <<a, b.he>> \in DOMAIN min_cell THEN min_cell[<<a, b.he>>] ELSE None

\* C21: in the finished tree every branch (he, children) of every node has he.min_cell
\* set, and it is a child of that branch whose cost is minimal among the children
C21_MinCellIsMinimalChild ==
    pc = "built" =>
        \A a \in DOMAIN node_map :
            \A i \in DOMAIN Branches(a) :
                LET b == Branches(a)[i]
                IN  /\ MinCellOf(a, b) # None
                    /\ MinCellOf(a, b) \in Range(b.children)
                    /\ \A c \in Range(b.children) :
                           node_map[MinCellOf(a, b)].cost <= node_map[c].cost


\* the nodes already handed to a caller as a child: in a branch, or collected for one
UsedAsChild ==
    UNION {ChildrenOf(a) : a \in DOMAIN node_map}
        \cup UNION {Range(stack[i].child_nodes) : i \in DOMAIN stack}

CostsOfUsedChildrenKept ==
    \A c \in UsedAsChild : node_map'[c].cost = node_map[c].cost

\* C22: once a node has been returned to a caller as a child (fresh or reused through
\* node_map), no later step of the construction changes its cost
C22_ChildCostsAreFinal ==
    [][CostsOfUsedChildrenKept]_vars

\* a finished tree in which a node reused through node_map is the child of two nodes,
\* one of them itself a child whose cost was raised by its own branch
C22_Witness ==
    /\ pc = "built"
    /\ \E c \in DOMAIN node_map, a \in UsedAsChild :
        /\ c \in ChildrenOf(a) /\ c \in ChildrenOf(root)
        /\ node_map[a].cost >= 2


\* the nodes reached from the nodes of S by following 1..n times a branch to a child
RECURSIVE ReachedFrom(_, _)
ReachedFrom(S, n) ==
    IF n = 0 THEN {}
    ELSE LET children == UNION {ChildrenOf(a) : a \in S}
         IN  children \cup ReachedFrom(children, n - 1)

\* C23: in the structure build_hypergraph_tree_with_costs returns (one node per
\* attribute, reused through node_map) no node is reachable from itself by following
\* branches to children, so every descent of find_node ends
C23_Acyclic ==
    pc \in {"built", "bfs", "done"} =>
        \A a \in DOMAIN node_map : a \notin ReachedFrom({a}, Cardinality(Attrs))

\* a returned structure that is not a tree (a node with two parents) built from a map
\* whose head-to-tail relation has a cycle through that node
C23_Witness ==
    /\ pc = "built"
    /\ \E c \in DOMAIN node_map \ {root} :
        /\ Cardinality({a \in DOMAIN node_map : c \in ChildrenOf(a)}) = 2
        /\ \E a \in TailAttrs(c) : c \in TailAttrs(a)


\* C27: the set optimal_delete_with_precomputed_costs(root, root.cell) returns has as
\* many cells as root.cost, the deletion cost computed during construction
C27_DeletionSetSizeIsRootCost ==
    (pc = "done" /\ deleted = root) => Cardinality(to_delete) = node_map[root].cost

(***************************************************************************)
(* Further properties of Part IV (checked under BoundsSpec)                *)
(***************************************************************************)
\* the relationship the declarations give two tables: the foreign-key pairs listed for
\* them in this order, else those listed in the other order with the sides swapped,
\* else the primary-key columns both have (EID for any two tables of RTF25)
DeclaredJoin(db, t1, t2) ==
    LET direct == {fk \in foreign_keys(db) : fk[1] = Lower(t1) /\ fk[2] = Lower(t2)}
        reverse == {fk \in foreign_keys(db) : fk[1] = Lower(t2) /\ fk[2] = Lower(t1)}
        PrimaryKey(t) ==
            IF "*" \in DOMAIN primary_keys(db) THEN Range(primary_keys(db)["*"])
            ELSE Range(KeysOf(db, Lower(t)))
    IN  IF direct # {} THEN {<<fk[3], fk[4]>> : fk \in direct}
        ELSE IF reverse # {} THEN {<<fk[4], fk[3]>> : fk \in reverse}
        ELSE {<<key, key>> : key \in PrimaryKey(t1) \cap PrimaryKey(t2)}

\* C24: for two different tables with a declared relationship _get_join_conditions
\* returns the equality join on the declared columns, table1's column on the t1 side;
\* the cross-table call raises ValueError only when no relationship is declared
C24_JoinFollowsDeclarations ==
    (inferer = "DomainInfer" /\ target_table # known_table) =>
        LET declared == DeclaredJoin(database, target_table, known_table)
            conditions == get_join_conditions(database, target_table, known_table)
        IN  /\ bpc = "raised" <=> declared = {}
            /\ declared # {} => (~conditions.raised /\ conditions.value = declared)


(***************************************************************************)
(* Properties of Part VI (checked under DomainSpec)                        *)
(***************************************************************************)
\* C25: the domain get_global_domain returns never holds None: a row whose value of
\* the attribute is None contributes nothing, in delset or not
C25_NoNullInDomain ==
    gpc = "returned" => PyNone \notin domain.values


(***************************************************************************)
(* A property of the whole workflow (checked under WorkflowSpec)           *)
(***************************************************************************)
\* C26: for a fixed row and a fixed set of denial constraints, combined_rtf_workflow
\* returns the same deletion set for every ordering of the denial-constraint list
C26_DeletionSetIgnoresOrder ==
    (pc = "done" /\ deleted = start_attr /\ previous # <<>>) => to_delete = previous[1]


\* the rows the denial constraint speaks about: those of the table, or for two tables
\* the pairs of rows the join condition relates
ConstrainedRows ==
    IF target_table = known_table THEN target_rows
    ELSE {[a |-> p[1].a, b |-> p[2].b, j |-> p[1].j] :
              p \in {q \in target_rows \X known_rows : q[1].j = q[2].j}}

\* not(t1.A > t2.A and t1.B < t2.B) for all rows t1, t2
SatisfiesDC(rows) == \A t1, t2 \in rows : ~(t1.a > t2.a /\ t1.b < t2.b)

\* C28: on a table that satisfies not(t1.A > t2.A and t1.B < t2.B), the bounds
\* get_bounds_int_int returns for A satisfy lower <= upper whenever both are values
\* of existing rows
C28_LowerAtMostUpper ==
    (/\ bpc = "returned"
     /\ SatisfiesDC(ConstrainedRows)
     /\ bounds[1].kind = "number" /\ bounds[2].kind = "number") =>
        bounds[1].n <= bounds[2].n

\* a two-row table that satisfies the constraint, a known value between its two values
\* of B, and bounds that are the two different values of A
C28_Witness ==
    /\ bpc = "returned"
    /\ target_table = known_table
    /\ Cardinality(target_rows) = 2
    /\ SatisfiesDC(target_rows)
    /\ \E lo, hi \in target_rows :
         /\ lo.b < known_value /\ known_value < hi.b
         /\ bounds = <<Number(lo.a), Number(hi.a)>>
         /\ lo.a < hi.a

=============================================================================
